---- MODULE Spec2Model ----
(***************************************************************************)
(* ChunkStore (src/chunk_store/chunk_store.rs): a quota-bounded store of   *)
(* chunks kept as one file per chunk in a private temporary directory.     *)
(* The model keeps the directory contents, the two usize counters of the   *)
(* struct, and the outcome of the last call.  The storage medium is an     *)
(* input of every call: each std::fs primitive a handler uses may fail,    *)
(* and File::write may accept fewer bytes than it was given.               *)
(***************************************************************************)
EXTENDS Integers, Sequences, FiniteSets, TLC

\* ---- bounds ----
WordBits == 3          \* width of usize in the model
MaxLen   == 2          \* longest payload handed to put
MaxByte  == 0          \* payload bytes are 0..MaxByte
NumNames == 2          \* number of distinct chunk names
MaxCapacity == 3       \* largest max_disk_usage handed to new

Modulus   == 2 ^ WordBits
usize_MAX == Modulus - 1
isize_MAX == (Modulus \div 2) - 1      \* a Vec<u8> never holds more bytes

Min(a, b) == IF a <= b THEN a ELSE b

NameType == 0 .. (NumNames - 1)
Bytes    == 0 .. MaxByte
Payloads == UNION { [1..n -> Bytes] : n \in 0 .. Min(MaxLen, isize_MAX) }

\* Option<T>
None    == << >>
Some(x) == << x >>

\* NameType::as_hex: two hexadecimal digits per byte of the name
as_hex(name) == << name \div 16, name % 16 >>

FileNames == { as_hex(n) : n \in NameType }

VARIABLES
  tempdir,             \* file name -> None | Some(contents): the directory
  max_disk_usage,      \* ChunkStore.max_disk_usage
  current_disk_usage,  \* ChunkStore.current_disk_usage
  overflow_checks,     \* build profile: TRUE = arithmetic overflow panics
  op, key, val,        \* the last call, its name argument and payload
  result,              \* what the last call returned
  out,                 \* value carried by an Ok of get / has_chunk
  failed,              \* the primitive of the medium that failed in it
  had_before,          \* whether the last put / delete found an entry under
                       \* its name when it began
  fresh,               \* Some(u) when the last call was a successful put
                       \* under a name that had no entry, begun at usage u
  foreign,             \* raw entries of the directory that are not chunk files
  dir_entries,         \* Chunks.dir_entries of the live iterator: None, or
                       \* Some(raw entries it has yet to return, in order)
  reader,              \* ChunkReader.path of the reader the caller holds
  yielded,             \* names the live iterator has yielded, in order
  errored,             \* whether the live iterator has yielded an error item
  payload,             \* name -> None | Some(value the caller handed to the
                       \* successful put that made the entry now under it)
  threads              \* unsynchronised puts in flight (SpecRace only)

vars == << tempdir, max_disk_usage, current_disk_usage, overflow_checks,
           op, key, val, result, out, failed, had_before, fresh,
           foreign, dir_entries, reader, yielded, errored, payload,
           threads >>

\* &self
self == [ tempdir |-> tempdir, max |-> max_disk_usage,
          used |-> current_disk_usage ]

\* bytes File::write may report for a buffer of length n
Written(n) == IF n = 0 THEN { 0 } ELSE 1 .. n

\* What the medium does during one call: the primitive that fails (if any),
\* the count File::write reports, and whether the remove_file of put's
\* error path succeeds.
PutIO(value) ==
  [ fault : { "none" }, written : Written(Len(value)), cleanup : { TRUE } ]
    \cup [ fault : { "read_dir", "metadata", "remove", "create" },
           written : { 0 }, cleanup : { TRUE } ]
    \cup [ fault : { "write" }, written : { 0 }, cleanup : BOOLEAN ]
    \cup [ fault : { "sync" }, written : Written(Len(value)), cleanup : BOOLEAN ]
DeleteIO == [ fault : { "none", "read_dir", "metadata", "remove" } ]
GetIO    == [ fault : { "none", "read_dir", "open", "read" } ]
HasIO    == [ fault : { "none", "read_dir" } ]

RECURSIVE SumSizes(_, _)
SumSizes(dir, names) ==
  IF names = {} THEN 0
  ELSE LET f == CHOOSE x \in names : TRUE
       IN (IF dir[f] = None THEN 0 ELSE Len(dir[f][1])) + SumSizes(dir, names \ {f})

\* ChunkStore::new
new(max) == [ tempdir |-> [f \in FileNames |-> None], max |-> max, used |-> 0 ]

\* ChunkStore::has_disk_space (wrapping addition of a release build)
has_disk_space(s, required_space) ==
  ((s.used + required_space) % Modulus) <= s.max

\* dir_entry comparing only the first character of the file name
dir_entry_first_char(s, name, io) ==
  IF io.fault = "read_dir"
  THEN [ res |-> "Err", entry |-> None ]
  ELSE IF \E f \in FileNames : s.tempdir[f] # None /\ f[1] = as_hex(name)[1]
       THEN [ res |-> "Ok",
              entry |-> Some(CHOOSE f \in FileNames :
                               s.tempdir[f] # None /\ f[1] = as_hex(name)[1]) ]
       ELSE [ res |-> "Ok", entry |-> None ]

\* ChunkStore::dir_entry
dir_entry(s, name, io) ==
  IF io.fault = "read_dir"
  THEN [ res |-> "Err", entry |-> None ]
  ELSE IF \E f \in FileNames : s.tempdir[f] # None /\ f = as_hex(name)
       THEN [ res |-> "Ok", entry |-> Some(as_hex(name)) ]
       ELSE [ res |-> "Ok", entry |-> None ]

\* delete subtracting the size before remove_file is attempted
delete_subtract_first(s, name, io) ==
  LET e == dir_entry(s, name, io) IN
  IF e.res = "Err" THEN [ res |-> "Err", self |-> s, failed |-> "read_dir" ]
  ELSE IF e.entry = None THEN [ res |-> "Ok", self |-> s, failed |-> "none" ]
  ELSE LET path     == e.entry[1]
           metadata == Len(s.tempdir[path][1]) % Modulus
           counted  == [ s EXCEPT !.used = (s.used - metadata + Modulus) % Modulus ]
       IN IF io.fault = "metadata"
          THEN [ res |-> "Err", self |-> s, failed |-> "metadata" ]
          ELSE IF overflow_checks /\ s.used < metadata
          THEN [ res |-> "Panic", self |-> s, failed |-> "none" ]
          ELSE IF io.fault = "remove"
          THEN [ res |-> "Err", self |-> counted, failed |-> "remove" ]
          ELSE [ res |-> "Ok",
                 self |-> [ counted EXCEPT !.tempdir[path] = None ],
                 failed |-> "none" ]

\* ChunkStore::delete
delete(s, name, io) ==
  LET e == dir_entry(s, name, io) IN
  IF e.res = "Err" THEN [ res |-> "Err", self |-> s, failed |-> "read_dir" ]
  ELSE IF e.entry = None THEN [ res |-> "Ok", self |-> s, failed |-> "none" ]
  ELSE LET path     == e.entry[1]
           metadata == Len(s.tempdir[path][1]) % Modulus
           removed  == [ s EXCEPT !.tempdir[path] = None ]
       IN IF io.fault = "metadata"
          THEN [ res |-> "Err", self |-> s, failed |-> "metadata" ]
          ELSE IF io.fault = "remove"
          THEN [ res |-> "Err", self |-> s, failed |-> "remove" ]
          ELSE IF overflow_checks /\ s.used < metadata
          THEN [ res |-> "Panic", self |-> removed, failed |-> "none" ]
          ELSE [ res |-> "Ok",
                 self |-> [ removed EXCEPT !.used = (s.used - metadata + Modulus) % Modulus ],
                 failed |-> "none" ]

\* put removing the existing entry before the quota check
put_delete_first(s, name, value, io) ==
  LET path == as_hex(name) IN
  IF overflow_checks /\ s.used + Len(value) > usize_MAX
  THEN [ res |-> "Panic", self |-> s, failed |-> "none" ]
  ELSE LET d == delete(s, name, io) IN
    IF ~ has_disk_space(s, Len(value))
    THEN [ res |-> "StorageLimitHit",
           self |-> IF d.res = "Ok" THEN d.self ELSE s, failed |-> "none" ]
    ELSE IF d.res = "Err" THEN [ res |-> "IoError", self |-> d.self, failed |-> d.failed ]
    ELSE IF d.res = "Panic" THEN [ res |-> "Panic", self |-> d.self, failed |-> "none" ]
    ELSE IF io.fault = "create"
    THEN [ res |-> "IoError", self |-> d.self, failed |-> "create" ]
    ELSE IF io.fault = "write"
    THEN [ res |-> "IoError",
           self |-> [ d.self EXCEPT !.tempdir[path] =
                        IF io.cleanup THEN None ELSE Some(<< >>) ],
           failed |-> "write" ]
    ELSE LET size    == io.written
             written == SubSeq(value, 1, size)
         IN IF io.fault = "sync"
            THEN [ res |-> "IoError",
                   self |-> [ d.self EXCEPT !.tempdir[path] =
                                IF io.cleanup THEN None ELSE Some(written) ],
                   failed |-> "sync" ]
            ELSE IF overflow_checks /\ d.self.used + size > usize_MAX
            THEN [ res |-> "Panic",
                   self |-> [ d.self EXCEPT !.tempdir[path] = Some(written) ],
                   failed |-> "none" ]
            ELSE [ res |-> "Ok",
                   self |-> [ d.self EXCEPT !.tempdir[path] = Some(written),
                                            !.used = (d.self.used + size) % Modulus ],
                   failed |-> "none" ]

\* put adding the written size to the counter before sync_all
put_count_before_sync(s, name, value, io) ==
  LET path == as_hex(name) IN
  IF overflow_checks /\ s.used + Len(value) > usize_MAX
  THEN [ res |-> "Panic", self |-> s, failed |-> "none" ]
  ELSE IF ~ has_disk_space(s, Len(value))
  THEN [ res |-> "StorageLimitHit", self |-> s, failed |-> "none" ]
  ELSE LET d == delete(s, name, io) IN
    IF d.res = "Err" THEN [ res |-> "IoError", self |-> d.self, failed |-> d.failed ]
    ELSE IF d.res = "Panic" THEN [ res |-> "Panic", self |-> d.self, failed |-> "none" ]
    ELSE IF io.fault = "create"
    THEN [ res |-> "IoError", self |-> d.self, failed |-> "create" ]
    ELSE IF io.fault = "write"
    THEN [ res |-> "IoError",
           self |-> [ d.self EXCEPT !.tempdir[path] =
                        IF io.cleanup THEN None ELSE Some(<< >>) ],
           failed |-> "write" ]
    ELSE LET size    == io.written
             written == SubSeq(value, 1, size)
         IN IF io.fault = "sync"
            THEN [ res |-> "IoError",
                   self |-> [ d.self EXCEPT !.tempdir[path] =
                                IF io.cleanup THEN None ELSE Some(written),
                              !.used = (d.self.used + size) % Modulus ],
                   failed |-> "sync" ]
            ELSE IF overflow_checks /\ d.self.used + size > usize_MAX
            THEN [ res |-> "Panic",
                   self |-> [ d.self EXCEPT !.tempdir[path] = Some(written) ],
                   failed |-> "none" ]
            ELSE [ res |-> "Ok",
                   self |-> [ d.self EXCEPT !.tempdir[path] = Some(written),
                                            !.used = (d.self.used + size) % Modulus ],
                   failed |-> "none" ]

\* ChunkStore::put
put(s, name, value, io) ==
  LET path == as_hex(name) IN
  IF overflow_checks /\ s.used + Len(value) > usize_MAX
  THEN [ res |-> "Panic", self |-> s, failed |-> "none" ]
  ELSE IF ~ has_disk_space(s, Len(value))
  THEN [ res |-> "StorageLimitHit", self |-> s, failed |-> "none" ]
  ELSE LET d == delete(s, name, io) IN
    IF d.res = "Err" THEN [ res |-> "IoError", self |-> d.self, failed |-> d.failed ]
    ELSE IF d.res = "Panic" THEN [ res |-> "Panic", self |-> d.self, failed |-> "none" ]
    ELSE IF io.fault = "create"
    THEN [ res |-> "IoError", self |-> d.self, failed |-> "create" ]
    ELSE IF io.fault = "write"
    THEN [ res |-> "IoError",
           self |-> [ d.self EXCEPT !.tempdir[path] =
                        IF io.cleanup THEN None ELSE Some(<< >>) ],
           failed |-> "write" ]
    ELSE LET size    == io.written
             written == SubSeq(value, 1, size)
         IN IF io.fault = "sync"
            THEN [ res |-> "IoError",
                   self |-> [ d.self EXCEPT !.tempdir[path] =
                                IF io.cleanup THEN None ELSE Some(written) ],
                   failed |-> "sync" ]
            ELSE IF overflow_checks /\ d.self.used + size > usize_MAX
            THEN [ res |-> "Panic",
                   self |-> [ d.self EXCEPT !.tempdir[path] = Some(written) ],
                   failed |-> "none" ]
            ELSE [ res |-> "Ok",
                   self |-> [ d.self EXCEPT !.tempdir[path] = Some(written),
                                            !.used = (d.self.used + size) % Modulus ],
                   failed |-> "none" ]

\* get opening the file with File::create, which truncates it
get_create(s, name, io) ==
  LET e == dir_entry(s, name, io) IN
  IF e.res = "Err"
  THEN [ res |-> "Err", out |-> None, failed |-> "read_dir", tempdir |-> s.tempdir ]
  ELSE IF e.entry = None
  THEN [ res |-> "Ok", out |-> None, failed |-> "none", tempdir |-> s.tempdir ]
  ELSE IF io.fault = "open"
  THEN [ res |-> "Err", out |-> None, failed |-> "open", tempdir |-> s.tempdir ]
  ELSE LET truncated == [ s.tempdir EXCEPT ![e.entry[1]] = Some(<< >>) ] IN
       IF io.fault = "read"
       THEN [ res |-> "Err", out |-> None, failed |-> "read", tempdir |-> truncated ]
       ELSE [ res |-> "Ok", out |-> Some(<< >>), failed |-> "none",
              tempdir |-> truncated ]

\* ChunkStore::get; tempdir is the directory as the call leaves it
get(s, name, io) ==
  LET e == dir_entry(s, name, io) IN
  IF e.res = "Err"
  THEN [ res |-> "Err", out |-> None, failed |-> "read_dir", tempdir |-> s.tempdir ]
  ELSE IF e.entry = None
  THEN [ res |-> "Ok", out |-> None, failed |-> "none", tempdir |-> s.tempdir ]
  ELSE IF io.fault \in { "open", "read" }
       THEN [ res |-> "Err", out |-> None, failed |-> io.fault, tempdir |-> s.tempdir ]
       ELSE [ res |-> "Ok", out |-> Some(s.tempdir[e.entry[1]][1]), failed |-> "none",
              tempdir |-> s.tempdir ]

\* has_chunk testing the lookup's Result (is_ok) instead of its Option
has_chunk_is_ok(s, name, io) ==
  LET e == dir_entry(s, name, io) IN
  IF e.res = "Err" THEN [ res |-> "Err", out |-> FALSE, failed |-> "read_dir" ]
  ELSE [ res |-> "Ok", out |-> (e.res = "Ok"), failed |-> "none" ]

\* ChunkStore::has_chunk
has_chunk(s, name, io) ==
  LET e == dir_entry(s, name, io) IN
  IF e.res = "Err" THEN [ res |-> "Err", out |-> FALSE, failed |-> "read_dir" ]
  ELSE [ res |-> "Ok", out |-> (e.entry # None), failed |-> "none" ]

\* ---- enumeration ----

\* NameType::from_hex: the name two hexadecimal digits encode, if they do
\* (16 stands for any character that is no hexadecimal digit)
from_hex(str) ==
  IF Len(str) = 2 /\ \A i \in 1 .. 2 : str[i] \in 0 .. 15
  THEN Some(16 * str[1] + str[2])
  ELSE None

\* raw entries other than chunk files that Chunks::next provides for: a
\* subdirectory with a well-formed name and a file whose name does not decode
Foreign == { [ name |-> << 15, 15 >>, is_file |-> FALSE ],
             [ name |-> << 16, 16 >>, is_file |-> TRUE ] }

\* the raw entries fs::read_dir lists
read_dir(dir, extra) ==
  { [ name |-> f, is_file |-> TRUE ] : f \in { g \in FileNames : dir[g] # None } }
    \cup extra

\* the orders in which a directory may list the entries of S
Orders(S) ==
  { q \in [ 1 .. Cardinality(S) -> S ] :
      \A i, j \in 1 .. Cardinality(S) : i # j => q[i] # q[j] }

ChunksIO(dir, extra) ==
  [ fault : { "read_dir" }, order : { << >> } ]
    \cup [ fault : { "none" }, order : Orders(read_dir(dir, extra)) ]
\* the at-th raw entry examined from here on fails, at listing or at file_type;
\* whether fs::ReadDir lists further entries after a listing error is the
\* platform's choice (ends)
NextIO(entries) ==
  [ fault : { "none" }, at : { 0 }, ends : { FALSE } ]
    \cup [ fault : { "file_type" }, at : 1 .. Len(entries), ends : { FALSE } ]
    \cup [ fault : { "read_dir" }, at : 1 .. Len(entries), ends : BOOLEAN ]
ReadIO == [ fault : { "none", "open", "read" } ]

\* ChunkStore::chunks
chunks(s, extra, io) ==
  IF io.fault = "read_dir"
  THEN [ res |-> "Err", dir_entries |-> None, failed |-> "read_dir" ]
  ELSE [ res |-> "Ok", dir_entries |-> Some(io.order), failed |-> "none" ]

\* Chunks::next returning None for good once it has returned an error
RECURSIVE Chunks_next_fused(_, _)
Chunks_next_fused(entries, io) ==
  IF entries = << >>
  THEN [ res |-> "End", item |-> None, rest |-> << >>, failed |-> "none" ]
  ELSE LET entry == Head(entries)
           rest  == Tail(entries)
       IN IF io.at = 1
          THEN [ res |-> "Err", item |-> None, rest |-> << >>, failed |-> io.fault ]
          ELSE IF ~ entry.is_file \/ from_hex(entry.name) = None
          THEN Chunks_next_fused(rest, [ io EXCEPT !.at = @ - 1 ])
          ELSE [ res |-> "Item",
                 item |-> Some(<< from_hex(entry.name)[1], entry.name >>),
                 rest |-> rest, failed |-> "none" ]

\* Chunks::next over the raw entries the iterator has yet to return
RECURSIVE Chunks_next(_, _)
Chunks_next(entries, io) ==
  IF entries = << >>
  THEN [ res |-> "End", item |-> None, rest |-> << >>, failed |-> "none" ]
  ELSE LET entry == Head(entries)
           rest  == Tail(entries)
       IN IF io.at = 1 /\ io.fault = "read_dir"
          THEN [ res |-> "Err", item |-> None,
                 rest |-> IF io.ends THEN << >> ELSE rest, failed |-> "read_dir" ]
          ELSE IF io.at = 1 /\ io.fault = "file_type"
          THEN [ res |-> "Err", item |-> None, rest |-> rest, failed |-> "file_type" ]
          ELSE IF ~ entry.is_file
          THEN Chunks_next(rest, [ io EXCEPT !.at = @ - 1 ])
          ELSE IF from_hex(entry.name) = None
          THEN Chunks_next(rest, [ io EXCEPT !.at = @ - 1 ])
          ELSE [ res |-> "Item",
                 item |-> Some(<< from_hex(entry.name)[1], entry.name >>),
                 rest |-> rest, failed |-> "none" ]

\* ChunkReader::read; a path outside FileNames names no chunk file
ChunkReader_read(dir, path, io) ==
  IF io.fault = "open"
  THEN [ res |-> "Err", out |-> None, failed |-> "open", tempdir |-> dir ]
  ELSE IF path \notin FileNames \/ dir[path] = None
  THEN [ res |-> "Err", out |-> None, failed |-> "none", tempdir |-> dir ]
  ELSE IF io.fault = "read"
  THEN [ res |-> "Err", out |-> None, failed |-> "read", tempdir |-> dir ]
  ELSE [ res |-> "Ok", out |-> Some(dir[path][1]), failed |-> "none", tempdir |-> dir ]

Alive == result # "Panic"

Init ==
  /\ max_disk_usage \in 0 .. Min(MaxCapacity, usize_MAX)
  /\ tempdir = new(max_disk_usage).tempdir
  /\ current_disk_usage = new(max_disk_usage).used
  /\ overflow_checks \in BOOLEAN
  /\ op = "new" /\ key = 0 /\ val = << >>
  /\ result = "Ok" /\ out = None /\ failed = "none"
  /\ had_before = FALSE /\ fresh = None
  /\ foreign = {}
  /\ dir_entries = None /\ reader = None /\ yielded = << >> /\ errored = FALSE
  /\ payload = [ n \in NameType |-> None ]
  /\ threads = << >>

Frame(o, name) ==
  /\ op' = o /\ key' = name
  /\ had_before' = (o \in { "put", "delete" } /\ tempdir[as_hex(name)] # None)
  /\ UNCHANGED << max_disk_usage, overflow_checks, foreign, threads >>

\* a call on the store leaves the caller's iterator and reader alone
Call(o, name) ==
  /\ Frame(o, name)
  /\ UNCHANGED << dir_entries, reader, yielded, errored >>

Put ==
  /\ Alive
  /\ \E name \in NameType, value \in Payloads :
       \E io \in PutIO(value) :
         \E r \in { put(self, name, value, io) } :
            /\ r.failed = io.fault
            /\ Call("put", name)
            /\ val' = value
            /\ tempdir' = r.self.tempdir
            /\ current_disk_usage' = r.self.used
            /\ result' = r.res /\ failed' = r.failed /\ out' = None
            /\ fresh' = IF r.res = "Ok" /\ tempdir[as_hex(name)] = None
                        THEN Some(current_disk_usage) ELSE None
            /\ payload' = [ payload EXCEPT ![name] =
                              IF r.res = "Ok" THEN Some(value)
                              ELSE IF r.self.tempdir[as_hex(name)] = tempdir[as_hex(name)]
                              THEN @ ELSE None ]

Delete ==
  /\ Alive
  /\ \E name \in NameType, io \in DeleteIO :
       \E r \in { delete(self, name, io) } :
          /\ r.failed = io.fault
          /\ Call("delete", name)
          /\ val' = << >>
          /\ tempdir' = r.self.tempdir
          /\ current_disk_usage' = r.self.used
          /\ result' = r.res /\ failed' = r.failed /\ out' = None
          /\ fresh' = None
          /\ payload' = [ payload EXCEPT ![name] =
                            IF r.self.tempdir[as_hex(name)] = None THEN None ELSE @ ]

Get ==
  /\ Alive
  /\ \E name \in NameType, io \in GetIO :
       \E r \in { get(self, name, io) } :
          /\ r.failed = io.fault
          /\ Call("get", name)
          /\ val' = << >>
          /\ result' = r.res /\ failed' = r.failed /\ out' = r.out
          /\ fresh' = None
          /\ tempdir' = r.tempdir
          /\ UNCHANGED << current_disk_usage, payload >>

HasChunk ==
  /\ Alive
  /\ \E name \in NameType, io \in HasIO :
       \E r \in { has_chunk(self, name, io) } :
          /\ r.failed = io.fault
          /\ Call("has_chunk", name)
          /\ val' = << >>
          /\ result' = r.res /\ failed' = r.failed /\ out' = Some(r.out)
          /\ fresh' = None
          /\ UNCHANGED << tempdir, current_disk_usage, payload >>

Next == Put \/ Delete \/ Get \/ HasChunk

Spec == Init /\ [][Next]_vars

\* ---- the store with its read-only surface and one enumeration at a time ----

\* no iterator is live; the directory is not changed under a live iterator
Idle == dir_entries = None

InitEnum ==
  /\ max_disk_usage = Min(MaxCapacity, usize_MAX)
  /\ tempdir = new(max_disk_usage).tempdir
  /\ current_disk_usage = new(max_disk_usage).used
  /\ overflow_checks \in BOOLEAN
  /\ op = "new" /\ key = 0 /\ val = << >>
  /\ result = "Ok" /\ out = None /\ failed = "none"
  /\ had_before = FALSE /\ fresh = None
  /\ foreign = Foreign
  /\ dir_entries = None /\ reader = None /\ yielded = << >> /\ errored = FALSE
  /\ payload = [ n \in NameType |-> None ]
  /\ threads = << >>

\* an accessor or iterator call: nothing of the store is written
Pure(o, arg) ==
  /\ Frame(o, arg)
  /\ val' = << >> /\ fresh' = None
  /\ UNCHANGED << current_disk_usage, payload >>

QuietPut      == Idle /\ Put
QuietDelete   == Idle /\ Delete
QuietGet      == Idle /\ Get
QuietHasChunk == Idle /\ HasChunk

\* ChunkStore::max_disk_usage
MaxDiskUsage ==
  /\ Alive /\ Idle
  /\ Pure("max_disk_usage", 0)
  /\ result' = "Ok" /\ failed' = "none" /\ out' = Some(self.max)
  /\ UNCHANGED << tempdir, dir_entries, reader, yielded, errored >>

\* ChunkStore::current_disk_usage
CurrentDiskUsage ==
  /\ Alive /\ Idle
  /\ Pure("current_disk_usage", 0)
  /\ result' = "Ok" /\ failed' = "none" /\ out' = Some(self.used)
  /\ UNCHANGED << tempdir, dir_entries, reader, yielded, errored >>

\* ChunkStore::has_disk_space, whose addition panics on overflow when the
\* build checks it
HasDiskSpace ==
  /\ Alive /\ Idle
  /\ \E required_space \in 0 .. usize_MAX :
       /\ Pure("has_disk_space", required_space)
       /\ result' = IF overflow_checks /\ self.used + required_space > usize_MAX
                    THEN "Panic" ELSE "Ok"
       /\ failed' = "none"
       /\ out' = IF result' = "Panic" THEN None
                 ELSE Some(has_disk_space(self, required_space))
  /\ UNCHANGED << tempdir, dir_entries, reader, yielded, errored >>

\* ChunkStore::chunks
ChunksOpen ==
  /\ Alive /\ Idle
  /\ \E io \in ChunksIO(tempdir, foreign) :
       \E r \in { chunks(self, foreign, io) } :
          /\ Pure("chunks", 0)
          /\ result' = r.res /\ failed' = r.failed /\ out' = None
          /\ dir_entries' = r.dir_entries
          /\ yielded' = << >> /\ errored' = FALSE
          /\ UNCHANGED << tempdir, reader >>

\* Chunks::next
ChunksNext ==
  /\ Alive /\ dir_entries # None
  /\ \E io \in NextIO(dir_entries[1]) :
       \E r \in { Chunks_next(dir_entries[1], io) } :
          /\ r.failed = io.fault
          /\ Pure("next", 0)
          /\ result' = r.res /\ failed' = r.failed
          /\ dir_entries' = Some(r.rest)
          /\ out' = IF r.res = "Item" THEN Some(r.item[1][1]) ELSE None
          /\ reader' = IF r.res = "Item" THEN Some(r.item[1][2]) ELSE reader
          /\ yielded' = IF r.res = "Item" THEN Append(yielded, r.item[1][1]) ELSE yielded
          /\ errored' = (errored \/ r.res = "Err")
          /\ UNCHANGED tempdir

\* the caller drops the iterator
ChunksDrop ==
  /\ Alive /\ dir_entries # None
  /\ Pure("drop", 0)
  /\ result' = "Ok" /\ failed' = "none" /\ out' = None
  /\ dir_entries' = None /\ yielded' = << >> /\ errored' = FALSE
  /\ UNCHANGED << tempdir, reader >>

\* ChunkReader::read, which consumes the reader
Read ==
  /\ Alive /\ reader # None
  /\ \E io \in ReadIO :
       \E r \in { ChunkReader_read(tempdir, reader[1], io) } :
          /\ r.failed = io.fault
          /\ Pure("read", 0)
          /\ result' = r.res /\ failed' = r.failed /\ out' = r.out
          /\ tempdir' = r.tempdir
          /\ reader' = None
          /\ UNCHANGED << dir_entries, yielded, errored >>

NextEnum ==
  \/ QuietPut \/ QuietDelete \/ QuietGet \/ QuietHasChunk
  \/ MaxDiskUsage \/ CurrentDiskUsage \/ HasDiskSpace
  \/ ChunksOpen \/ ChunksNext \/ ChunksDrop \/ Read

SpecEnum == InitEnum /\ [][NextEnum]_vars

\* ---- two puts on one store, interleaved at the steps of put ----

Threads == { 1, 2 }

\* a put that has not begun
Entered == [ pc |-> "check", name |-> 0, value |-> << >>, size |-> 0,
             removed |-> None, res |-> "none" ]

InitRace ==
  /\ max_disk_usage \in 0 .. Min(MaxCapacity, usize_MAX)
  /\ tempdir = new(max_disk_usage).tempdir
  /\ current_disk_usage = new(max_disk_usage).used
  /\ overflow_checks \in BOOLEAN
  /\ op = "new" /\ key = 0 /\ val = << >>
  /\ result = "Ok" /\ out = None /\ failed = "none"
  /\ had_before = FALSE /\ fresh = None
  /\ foreign = {}
  /\ dir_entries = None /\ reader = None /\ yielded = << >> /\ errored = FALSE
  /\ payload = [ n \in NameType |-> None ]
  /\ threads = [ t \in Threads |-> Entered ]

RaceFrame ==
  UNCHANGED << max_disk_usage, overflow_checks, op, key, val, result, out,
               failed, had_before, fresh, foreign, dir_entries, reader,
               yielded, errored, payload >>

Returns(t, res) == [ threads EXCEPT ![t].pc = "done", ![t].res = res ]

\* put, the quota check: if !self.has_disk_space(value.len())
PutCheck(t) ==
  /\ threads[t].pc = "check"
  /\ \E name \in NameType, value \in Payloads :
       LET begun == [ threads EXCEPT ![t].name = name, ![t].value = value ]
       IN threads' =
            IF overflow_checks /\ current_disk_usage + Len(value) > usize_MAX
            THEN [ begun EXCEPT ![t].pc = "done", ![t].res = "Panic" ]
            ELSE IF ~ has_disk_space(self, Len(value))
            THEN [ begun EXCEPT ![t].pc = "done", ![t].res = "StorageLimitHit" ]
            ELSE [ begun EXCEPT ![t].pc = "remove" ]
  /\ UNCHANGED << tempdir, current_disk_usage >>
  /\ RaceFrame

\* put, the removal of an existing entry: self.delete(name)
PutRemove(t) ==
  /\ threads[t].pc = "remove"
  /\ \E io \in DeleteIO :
       \E d \in { delete(self, threads[t].name, io) } :
          /\ d.failed = io.fault
          /\ tempdir' = d.self.tempdir
          /\ current_disk_usage' = d.self.used
          /\ threads' =
               IF d.res = "Err" THEN Returns(t, "IoError")
               ELSE IF d.res = "Panic" THEN Returns(t, "Panic")
               ELSE [ threads EXCEPT
                        ![t].pc = "write",
                        ![t].removed = IF d.self.tempdir = tempdir THEN None
                                       ELSE Some(Len(tempdir[as_hex(threads[t].name)][1])) ]
  /\ RaceFrame

\* put, File::create, write and sync_all, with the removal of the file when
\* writing or syncing fails
PutWrite(t) ==
  /\ threads[t].pc = "write"
  /\ LET path == as_hex(threads[t].name) IN
     \E io \in { x \in PutIO(threads[t].value) :
                   x.fault \in { "none", "create", "write", "sync" } } :
       LET written == SubSeq(threads[t].value, 1, io.written) IN
       /\ tempdir' =
            IF io.fault = "create" THEN tempdir
            ELSE IF io.fault = "none" THEN [ tempdir EXCEPT ![path] = Some(written) ]
            ELSE [ tempdir EXCEPT ![path] = IF io.cleanup THEN None ELSE Some(written) ]
       /\ threads' =
            IF io.fault = "none"
            THEN [ threads EXCEPT ![t].pc = "add", ![t].size = io.written ]
            ELSE Returns(t, "IoError")
  /\ UNCHANGED current_disk_usage
  /\ RaceFrame

\* put storing the written size in the counter instead of adding it
PutAdd_assign(t) ==
  /\ threads[t].pc = "add"
  /\ current_disk_usage' = threads[t].size
  /\ threads' = Returns(t, "Ok")
  /\ UNCHANGED tempdir
  /\ RaceFrame

\* put, the counter addition: self.current_disk_usage += size
PutAdd(t) ==
  /\ threads[t].pc = "add"
  /\ IF overflow_checks /\ current_disk_usage + threads[t].size > usize_MAX
     THEN /\ threads' = Returns(t, "Panic")
          /\ UNCHANGED current_disk_usage
     ELSE /\ threads' = Returns(t, "Ok")
          /\ current_disk_usage' = (current_disk_usage + threads[t].size) % Modulus
  /\ UNCHANGED tempdir
  /\ RaceFrame

NextRace ==
  \E t \in Threads : PutCheck(t) \/ PutRemove(t) \/ PutWrite(t) \/ PutAdd(t)

SpecRace == InitRace /\ [][NextRace]_vars

TypeOK ==
  /\ tempdir \in [FileNames -> {None} \cup { Some(p) : p \in Payloads }]
  /\ max_disk_usage \in 0 .. usize_MAX
  /\ current_disk_usage \in 0 .. usize_MAX

\* ---- properties ----

Present(dir, name) == dir[as_hex(name)] # None
SizeOf(dir, name)  == IF Present(dir, name) THEN Len(dir[as_hex(name)][1]) ELSE 0
OthersUnchanged(name) ==
  \A f \in FileNames \ { as_hex(name) } : tempdir'[f] = tempdir[f]

\* C1: after every put or delete that returns success,
\* current_disk_usage <= max_disk_usage.
C1_QuotaInvariant ==
  (op \in { "put", "delete" } /\ result = "Ok")
    => current_disk_usage <= max_disk_usage

\* C2: whenever no call is in progress, current_disk_usage equals the sum of
\* the sizes of the files in the directory, whatever the earlier calls returned.
C2_Accounting ==
  Alive => current_disk_usage = SumSizes(tempdir, FileNames)

\* C3: with a medium that does not fail, put of a payload of length L at usage
\* U succeeds iff U + L <= max_disk_usage, and otherwise fails with
\* StorageLimitHit.
C3_AdmissionBoundary ==
  [][ (op' = "put" /\ failed' = "none")
        => /\ (result' = "Ok") <=>
                (current_disk_usage + Len(val') <= max_disk_usage)
           /\ result' \in { "Ok", "StorageLimitHit" } ]_vars

\* C4: a get(k) issued right after a successful put(k, v) returns exactly v.
C4_RoundTrip ==
  [][ (op = "put" /\ result = "Ok" /\ op' = "get" /\ key' = key /\ result' = "Ok")
        => out' = Some(val) ]_vars

\* C5: after a successful put(k, v1) on an absent k followed by a successful
\* put(k, v2), the entry under k holds v2 and current_disk_usage is its value
\* before the first put plus len(v2).
C5_Overwrite ==
  [][ (fresh # None /\ op' = "put" /\ key' = key /\ result' = "Ok")
        => /\ tempdir'[as_hex(key')] = Some(val')
           /\ current_disk_usage' = fresh[1] + Len(val') ]_vars

\* C6: a successful delete(k) of a present k lowers current_disk_usage by
\* exactly the size of k's file, leaves k absent and leaves every other
\* entry as it was.
C6_DeletePresent ==
  [][ (op' = "delete" /\ result' = "Ok" /\ Present(tempdir, key'))
        => /\ current_disk_usage' = current_disk_usage - SizeOf(tempdir, key')
           /\ ~ Present(tempdir', key')
           /\ OthersUnchanged(key') ]_vars

\* C7 as stated: delete(k) with no entry under k returns success and changes
\* neither current_disk_usage nor the directory.
C7_Original ==
  [][ (op' = "delete" /\ ~ Present(tempdir, key'))
        => /\ result' = "Ok"
           /\ UNCHANGED << tempdir, current_disk_usage >> ]_vars

\* C7 (amended): delete(k) with no entry under k changes neither
\* current_disk_usage nor the directory; it returns success unless the lookup
\* of the directory fails, and then it returns that error.  A delete(k)
\* right after a successful delete(k) therefore changes nothing.
C7_DeleteAbsent ==
  [][ /\ (op' = "delete" /\ ~ Present(tempdir, key'))
          => /\ UNCHANGED << tempdir, current_disk_usage >>
             /\ (failed' = "none" => result' = "Ok")
             /\ (failed' # "none" => result' = "Err" /\ failed' = "read_dir")
      /\ (op = "delete" /\ result = "Ok" /\ op' = "delete" /\ key' = key)
          => UNCHANGED << tempdir, current_disk_usage >> ]_vars

\* a delete of an absent name has returned success beside a stored chunk
C7_Witness ==
  /\ op = "delete" /\ result = "Ok" /\ ~ Present(tempdir, key)
  /\ \E n \in NameType : Present(tempdir, n) /\ SizeOf(tempdir, n) > 0
  /\ current_disk_usage = SumSizes(tempdir, FileNames)

\* C8: a put rejected with StorageLimitHit changes neither
\* current_disk_usage nor any entry of the directory, the one under its own
\* name included.
C8_RejectedPutNoMutation ==
  [][ (op' = "put" /\ result' = "StorageLimitHit")
        => UNCHANGED << tempdir, current_disk_usage >> ]_vars

\* a put over an existing chunk has been rejected for lack of space
C8_Witness ==
  /\ op = "put" /\ result = "StorageLimitHit"
  /\ Present(tempdir, key) /\ SizeOf(tempdir, key) > 0

\* C9 as stated: a put that fails with an I/O error at create, write or sync
\* leaves current_disk_usage as it was before the call.
C9_Original ==
  [][ (op' = "put" /\ result' = "IoError" /\ failed' \in { "create", "write", "sync" })
        => current_disk_usage' = current_disk_usage ]_vars

\* C9 (amended): a put(k, v) that fails with an I/O error at create, write or
\* sync leaves current_disk_usage at its value before the call less the size
\* of the entry that was under k (usize subtraction); nothing of v is counted.
C9_FailedPutUsage ==
  [][ (op' = "put" /\ result' = "IoError" /\ failed' \in { "create", "write", "sync" })
        => current_disk_usage' =
             (current_disk_usage - SizeOf(tempdir, key') + Modulus) % Modulus ]_vars

\* a put over an existing non-empty chunk has failed after the old entry
\* was removed
C9_Witness ==
  /\ op = "put" /\ result = "IoError" /\ failed \in { "create", "write", "sync" }
  /\ had_before
  /\ ~ Present(tempdir, key)
  /\ current_disk_usage = SumSizes(tempdir, FileNames)

\* C10: a delete that fails (lookup, size read or removal) leaves
\* current_disk_usage exactly as it was.
C10_FailedDeleteUsage ==
  [][ (op' = "delete" /\ result' = "Err")
        => current_disk_usage' = current_disk_usage ]_vars

\* a delete of an existing non-empty chunk has failed at remove_file
C10_Witness ==
  /\ op = "delete" /\ result = "Err" /\ failed = "remove"
  /\ Present(tempdir, key) /\ SizeOf(tempdir, key) > 0
\* C14: with a medium that does not fail, has_chunk(k) is true exactly when
\* get(k) returns a payload: each agrees with the presence of k's entry, a
\* get(k) right after has_chunk(k) agrees with it, and get(k) on a name never
\* put or just deleted returns Ok(None), not an error.
C14_LookupConsistency ==
  [][ /\ (op' = "has_chunk" /\ failed' = "none")
          => (result' = "Ok" /\ out' = Some(Present(tempdir, key')))
      /\ (op' = "get" /\ failed' = "none")
          => (result' = "Ok" /\ ((out' # None) <=> Present(tempdir, key')))
      /\ (op = "has_chunk" /\ result = "Ok" /\ op' = "get" /\ key' = key
            /\ failed' = "none")
          => ((out = Some(TRUE)) <=> (out' # None))
      /\ ( /\ \/ op = "new"
              \/ (op = "delete" /\ result = "Ok" /\ key' = key)
           /\ op' = "get" /\ failed' = "none")
          => (result' = "Ok" /\ out' = None) ]_vars

\* has_chunk has answered false for a deleted name while another chunk is stored
C14_Witness ==
  /\ op = "has_chunk" /\ result = "Ok" /\ out = Some(FALSE)
  /\ ~ Present(tempdir, key)
  /\ \E n \in NameType : Present(tempdir, n)

\* C17: after put(k, v) of a non-empty v returns an error, the entry under k
\* is either what it was before the call or absent; nothing of v is left
\* readable, even when the remove_file of the error path fails.
C17_FailedPutLeavesNothing ==
  [][ (op' = "put" /\ result' \in { "StorageLimitHit", "IoError" } /\ Len(val') > 0)
        => \/ tempdir'[as_hex(key')] = tempdir[as_hex(key')]
           \/ ~ Present(tempdir', key') ]_vars

\* C18: the size delete would read for any existing entry never exceeds
\* current_disk_usage, so its subtraction cannot underflow, and no call has
\* panicked.
C18_NoUnderflow ==
  /\ Alive
  /\ \A n \in NameType : SizeOf(tempdir, n) <= current_disk_usage
\* ---- properties of the enumeration and of the read-only surface ----

Range(q) == { q[i] : i \in 1 .. Len(q) }
NoDuplicates(q) == \A i, j \in 1 .. Len(q) : i # j => q[i] # q[j]
PresentNames(dir) == { n \in NameType : Present(dir, n) }
IsChunkEntry(e) == e.is_file /\ from_hex(e.name) # None
\* position of the first raw entry that is a file with a decodable name, or 0
FirstChunk(entries) ==
  IF \E i \in 1 .. Len(entries) : IsChunkEntry(entries[i])
  THEN CHOOSE i \in 1 .. Len(entries) :
         /\ IsChunkEntry(entries[i])
         /\ \A j \in 1 .. (i - 1) : ~ IsChunkEntry(entries[j])
  ELSE 0
ReadOnlyOps == { "get", "has_chunk", "max_disk_usage", "current_disk_usage",
                 "has_disk_space", "chunks", "next", "drop", "read" }

\* C11: an enumeration consumed to its end without an error item has
\* yielded, each once, exactly the names present: every name a successful
\* put stored and no delete removed, and no name without an entry; and when
\* no primitive fails in it, the read of the reader yielded with a name
\* returns the payload that was put under that name.
C11_Enumeration ==
  [][ /\ (op' = "next" /\ result' = "End" /\ ~ errored')
          => /\ NoDuplicates(yielded')
             /\ { n \in NameType : payload'[n] # None } \subseteq Range(yielded')
             /\ Range(yielded') \subseteq PresentNames(tempdir')
      /\ (op' = "next" /\ result' = "Item")
          => reader' = Some(as_hex(out'[1]))
      /\ ( /\ op = "next" /\ result = "Item" /\ payload[out[1]] # None
           /\ op' = "read" /\ failed' = "none")
          => (result' = "Ok" /\ out' = payload[out[1]]) ]_vars

\* C12 as stated: once an iterator has yielded an error item, every later
\* step of it yields end-of-sequence.
C12_Original ==
  [][ (errored /\ op' = "next") => result' = "End" ]_vars

\* C12 (amended): an error item consumes the raw entry that failed and the
\* skipped entries before it, and the iterator does not end the sequence
\* because of it: every step, after an error item as before one, goes on
\* with the raw entries that remain, yields the first of them that is a
\* file with a decodable name unless an entry up to it fails, and yields
\* end-of-sequence only when none is left.  Only after a listing error may
\* the platform's directory stream itself leave no entries.
C12_ErrorDoesNotEnd ==
  [][ (op' = "next" /\ dir_entries # None)
        => LET entries == dir_entries[1]
               first   == FirstChunk(entries)
           IN /\ failed' = "none" /\ first = 0
                   => (result' = "End" /\ dir_entries' = Some(<< >>))
              /\ failed' = "none" /\ first # 0
                   => /\ result' = "Item"
                      /\ out' = from_hex(entries[first].name)
                      /\ dir_entries' = Some(SubSeq(entries, first + 1, Len(entries)))
              /\ failed' # "none"
                   => /\ result' = "Err"
                      /\ \E i \in 1 .. Len(entries) :
                           /\ first # 0 => i <= first
                           /\ \/ dir_entries' = Some(SubSeq(entries, i + 1, Len(entries)))
                              \/ failed' = "read_dir" /\ dir_entries' = Some(<< >>) ]_vars

\* an iterator has yielded a name after it yielded an error item
C12_Witness ==
  /\ errored /\ op = "next" /\ result = "Item"
  /\ dir_entries # None

\* C13: get, has_chunk, the accessors, has_disk_space, chunks, stepping or
\* dropping an iterator and ChunkReader::read leave the directory and
\* current_disk_usage as they were, and no call changes max_disk_usage.
C13_ReadOnly ==
  [][ /\ op' \in ReadOnlyOps
          => UNCHANGED << tempdir, current_disk_usage, foreign >>
      /\ max_disk_usage' = max_disk_usage ]_vars

\* a get has returned the payload of a stored non-empty chunk
C13_Witness ==
  /\ op = "get" /\ result = "Ok" /\ out # None
  /\ SizeOf(tempdir, key) > 0
  /\ current_disk_usage > 0

\* C16: has_disk_space(n) returns, for every n of the word, whether the
\* mathematical sum current_disk_usage + n is <= max_disk_usage.
C16_HasSpaceExact ==
  [][ op' = "has_disk_space"
        => /\ result' = "Ok"
           /\ out' = Some(current_disk_usage + key' <= max_disk_usage) ]_vars

\* C19: a reader reads when invoked: after a successful delete of the name
\* it was yielded with, read returns an error; after a successful
\* put(k, v2) over that name, read returns v2.
C19_DeferredRead ==
  [][ /\ ( /\ reader # None /\ op = "delete" /\ result = "Ok"
           /\ reader[1] = as_hex(key) /\ op' = "read")
          => result' = "Err"
      /\ ( /\ reader # None /\ op = "put" /\ result = "Ok"
           /\ reader[1] = as_hex(key) /\ op' = "read" /\ failed' = "none")
          => (result' = "Ok" /\ out' = Some(val)) ]_vars
\* both puts have returned
Quiescent == threads # << >> /\ \A t \in Threads : threads[t].pc = "done"
\* both puts, under one name, passed the quota check, found no entry to
\* remove, wrote their file and added to the counter
BothCounted ==
  /\ Quiescent
  /\ \A t \in Threads : threads[t].res = "Ok" /\ threads[t].removed = None
  /\ threads[1].name = threads[2].name

\* C15: when two unsynchronised puts under one name have both passed the
\* quota check before either wrote, and both have returned Ok, the counter
\* holds the sum of both written sizes while the directory holds one entry,
\* of one of the two sizes: current_disk_usage exceeds the persisted sizes
\* by the size of the put whose file was replaced.
C15_RaceDoubleCounts ==
  BothCounted
    => /\ PresentNames(tempdir) = { threads[1].name }
       /\ SizeOf(tempdir, threads[1].name) \in { threads[1].size, threads[2].size }
       /\ current_disk_usage = (threads[1].size + threads[2].size) % Modulus
       /\ current_disk_usage >= SumSizes(tempdir, FileNames)

\* two racing puts of non-empty payloads have both returned Ok and
\* current_disk_usage exceeds the size of the one entry there is
C15_Witness ==
  /\ BothCounted
  /\ PresentNames(tempdir) = { threads[1].name }
  /\ threads[1].size > 0 /\ threads[2].size > 0
  /\ current_disk_usage > SumSizes(tempdir, FileNames)
====
